---- MODULE Spec2Model ----
(***************************************************************************)
(* dlfelis.tap_schema: translation of a TapSchema JSON document into a     *)
(* felis/YAML schema, followed by an optional run of `felis validate`.     *)
(*                                                                         *)
(* Strings are TLA+ strings (\o is concatenation); file names given on the *)
(* command line are sequences of one-character strings so that             *)
(* os.path.splitext and os.path.basename can be computed on them.          *)
(* An optional value (None or a value) is a sequence of length 0 or 1.     *)
(***************************************************************************)
EXTENDS Integers, Sequences, FiniteSets, TLC

VARIABLES
    argv,          \* the command line (sys.argv), parsed
    pc,            \* position in main() / validate()
    options,       \* argparse.Namespace returned by _options()
    schema_name,   \* os.path.splitext(options.json): <<root, ext>>
    json_schema,   \* the document returned by json.load
    felis_schema,  \* the output graph under construction
    tap_index,     \* enumerate() counter of the table loop (0-based)
    felis_yaml,    \* name of the output file
    y,             \* set of file names currently open for writing
    fs,            \* files written by the run: name -> sequence of chunks
    felis_calls,   \* history of `felis validate` subprocess runs
    log,           \* records emitted through the logging module
    status,        \* value returned by main() / validate(): <<>> or <<rc>>
    raised         \* the exception that ended the run: <<>> or <<type, line>>

vars == <<argv, pc, options, schema_name, json_schema, felis_schema, tap_index,
          felis_yaml, y, fs, felis_calls, log, status, raised>>

-----------------------------------------------------------------------------
(* Bounds of the explored inputs. *)

MaxTables == 2
MaxColumns == 2
MaxNormColumns == 1

-----------------------------------------------------------------------------
(* Normalization tables. *)

felis_datatypes ==
       ("bigint" :> "long")
    @@ ("BIGINT" :> "long")
    @@ ("integer" :> "int")
    @@ ("INTEGER" :> "int")
    @@ ("smallint" :> "short")
    @@ ("SMALLINT" :> "short")
    @@ ("real" :> "float")
    @@ ("REAL" :> "float")
    @@ ("character" :> "char")
    @@ ("CHAR" :> "char")
    @@ ("varchar" :> "string")
    @@ ("DOUBLE" :> "double")
    @@ ("adql:INTEGER" :> "int")
    @@ ("adql:integer" :> "int")
    @@ ("adql:SMALLINT" :> "short")
    @@ ("adql:smallint" :> "short")
    @@ ("adql:SMALLINT[]" :> "short")
    @@ ("adql:BIGINT" :> "long")
    @@ ("adql:bigint" :> "long")
    @@ ("adql:REAL" :> "float")
    @@ ("adql:real" :> "float")
    @@ ("adql:REAL[]" :> "float")
    @@ ("adql:DOUBLE" :> "double")
    @@ ("adql:double" :> "double")
    @@ ("adql:DOUBLE[]" :> "double")
    @@ ("adql:CHAR" :> "char")
    @@ ("adql:char" :> "char")
    @@ ("adql:character" :> "char")
    @@ ("adql:character(1)" :> "char")
    @@ ("adql:VARCHAR" :> "string")
    @@ ("adql:varchar" :> "string")
    @@ ("adql:VARCHAR(n)" :> "string")
    @@ ("adql:TIMESTAMP" :> "timestamp")
    @@ ("adql:POINT" :> "point")
    @@ ("adql:REGION" :> "region")
    @@ ("adql:BOOLEAN" :> "boolean")
    @@ ("adql:text" :> "string")

felis_units ==
       ("nanomaggies" :> "nanomaggy")
    @@ ("Mgy" :> "mgy")
    @@ ("nanomaggies^2" :> "nanomaggy^2")
    @@ ("nanomaggies^{-2}" :> "nanomaggy^-2")
    @@ ("1/nanomaggies^2" :> "nanomaggy^-2")
    @@ ("nanomaggies/arcsec^2" :> "nanomaggy arcsec^-2")
    @@ ("1e-17 erg/s/cm^2/AA" :> "1e-17 erg s-1 cm-2 Angstrom-1")
    @@ ("10<sup>-17</sup> ergs/cm<sup>2</sup>/s/A" :> "1e-17 erg s-1 cm-2 Angstrom-1")
    @@ ("erg/cm2/s/A" :> "erg cm-2 s-1 Angstrom-1")
    @@ ("erg/s/A" :> "erg s-1 Angstrom-1")
    @@ ("erg/cm2/s/A/A" :> "erg cm-2 s-1 Angstrom-2")
    @@ ("1e-17 erg/s/cm^2" :> "1e-17 erg s-1 cm-2")
    @@ ("10<sup>-17</sup> ergs/cm<sup>2</sup>/s" :> "1e-17 erg s-1 cm-2")
    @@ ("ergs/cm2/s" :> "erg s-1 cm-2")
    @@ ("erg/cm2/s" :> "erg s-1 cm-2")
    @@ ("W/m2/Hz" :> "W m-2 Hz-1")
    @@ ("log(counts/s)" :> "dex(count/s)")
    @@ ("Counts" :> "count")
    @@ ("Electrons" :> "electron")
    @@ ("sec" :> "s")
    @@ ("seconds" :> "s")
    @@ ("Seconds" :> "s")
    @@ ("days" :> "d")
    @@ ("Days" :> "d")
    @@ ("years" :> "yr")
    @@ ("Julian years" :> "yr")
    @@ ("Gyrs" :> "Gyr")
    @@ ("Arcsec" :> "arcsec")
    @@ ("Arcseconds" :> "arcsec")
    @@ ("Arcseconds^2" :> "arcsec^2")
    @@ ("Milliarcseconds/year" :> "milliarcsecond/yr")
    @@ ("Angstroms" :> "Angstrom")
    @@ ("Ang" :> "Angstrom")
    @@ ("microns" :> "um")
    @@ ("degrees" :> "deg")
    @@ ("Degrees" :> "deg")
    @@ ("1/Degrees" :> "1/deg")
    @@ ("ADU" :> "adu")
    @@ ("pixels" :> "pixel")
    @@ ("Pixels" :> "pixel")
    @@ ("celsius" :> "Celsius")
    @@ ("micro-Janskys" :> "uJy")
    @@ ("magnitudes" :> "mag")
    @@ ("mags" :> "mag")
    @@ ("Magnitude" :> "mag")
    @@ ("Magnitudes" :> "mag")
    @@ ("Mag" :> "mag")
    @@ ("AB mags" :> "AB mag")
    @@ ("[mag x arcsec^{-2}]" :> "mag/arcsec^2")
    @@ ("mag./sq.arcsec" :> "mag/arcsec^2")
    @@ ("None" :> "")
    @@ ("Dimensionless" :> "")
    @@ ("Frequency[1/day]" :> "1/day")
    @@ ("e-/s" :> "electron/s")
    @@ ("Electrons/ADU" :> "electron/adu")
    @@ ("Time[Barycentric JD in TCB - 2455197.5 (day)]" :> "d")
    @@ ("Angle[mas^-2]" :> "mas^-2")
    @@ ("log(cm.s**-2)" :> "dex(cm/s2)")
    @@ ("[10-7W]" :> "10-7W")
    @@ ("[cW/m2/nm]" :> "cW m-2 nm-1")
    @@ ("[cw/m2/nm]" :> "cW m-2 nm-1")
    @@ ("kilobytes" :> "kilobyte")
    @@ ("1/(mas/yr)^2" :> "mas2 yr-2")
    @@ ("1/(mas/year)^2" :> "mas2 yr-2")
    @@ ("1/(mas)^2" :> "mas^-2")
    @@ ("m_sun" :> "M_sun")
    @@ ("l_sun" :> "L_sun")
    @@ ("r_sun" :> "R_sun")
    @@ ("Solar radius" :> "R_sun")
    @@ ("r_sun/year" :> "R_sun/yr")
    @@ ("m_sun/year" :> "M_sun/yr")
    @@ ("kelvin" :> "Kelvin")
    @@ ("log10(M_sun)" :> "dex(M_sun)")
    @@ ("log Gyr<sup>-1</sup>" :> "dex(Gyr^-1)")
    @@ ("log(count/s)" :> "dex(count/s)")
    @@ ("log(cm^-2)" :> "dex(cm^-2)")
    @@ ("Km/s" :> "km/s")
    @@ ("ergs/s" :> "erg/s")
    @@ ("solar masses per year" :> "M_sun/yr")
    @@ ("log(M_solar)" :> "dex(M_sun)")
    @@ ("dex (solar masses)" :> "dex(M_sun)")
    @@ ("solar mass" :> "M_sun")
    @@ ("solar metallicity" :> "")
    @@ ("E(B-V) mag" :> "mag")
    @@ ("(3.63 nJy)^2" :> "13.1769 nJy^2")
    @@ ("sexigesimal hours" :> "deg")
    @@ ("sexigesimal degrees" :> "deg")

felis_ucds ==
       ("pos.gal.lon" :> "pos.galactic.lon")
    @@ ("pos.gal.lat" :> "pos.galactic.lat")
    @@ ("pos.ecl.lon" :> "pos.ecliptic.lon")
    @@ ("pos.ecl.lat" :> "pos.ecliptic.lat")
    @@ ("stat.ratio" :> "stat.snr")
    @@ ("instr.filter" :> "phys.transmission;instr.filter")
    @@ ("src.var;meta.number" :> "meta.number;src.var")
    @@ ("phys.proper_motion" :> "pos.pm")
    @@ ("phys.parallax" :> "pos.parallax")
    @@ ("id_number" :> "meta.record")
    @@ ("refer_code" :> "meta.ref")
    @@ ("pos_eq_dec_off" :> "pos.eq.dec;instr.offset")
    @@ ("pos_eq_ra_off" :> "pos.eq.ra;instr.offset")
    @@ ("stat_prop" :> "stat.probability")
    @@ ("pos_pos-ang" :> "pos.posAng")
    @@ ("phys_ellipticity" :> "src.ellipticity")
    @@ ("morph_param" :> "src.morph.param")
    @@ ("error" :> "stat.error")
    @@ ("phot_mag" :> "phot.mag")
    @@ ("phot_color" :> "phot.color")
    @@ ("pos_gal_lat" :> "pos.galactic.lat")
    @@ ("pos_gal_lon" :> "pos.galactic.lon")
    @@ ("pos_eq_x" :> "pos.cartesian.x")
    @@ ("pos_eq_y" :> "pos.cartesian.y")
    @@ ("pos_eq_z" :> "pos.cartesian.z")
    @@ ("number" :> "meta.number")
    @@ ("time_epoch" :> "time.epoch")
    @@ ("fit_chi2" :> "stat.fit.chi2")
    @@ ("pos_eq_pmra" :> "pos.pm;pos.eq.ra")
    @@ ("pos_eq_pmdec" :> "pos.pm;pos.eq.dec")

-----------------------------------------------------------------------------
(* Helpers on sequences and file names. *)

SeqsUpTo(S, n) == UNION {[1..k -> S] : k \in 0..n}

\* The string spelled by a sequence of one-character strings.
RECURSIVE Str(_)
Str(chars) == IF chars = <<>> THEN "" ELSE Head(chars) \o Str(Tail(chars))

\* 1-based position of the last occurrence of ch in p, 0 when there is none
\* (str.rfind, which os.path.splitext and os.path.basename are built on).
rfind(p, ch) ==
    LET hits == {i \in 1..Len(p) : p[i] = ch}
    IN  IF hits = {} THEN 0 ELSE CHOOSE i \in hits : \A j \in hits : j <= i

\* os.path.splitext: the extension starts at the last dot of the last path
\* component, unless that component has only dots before it.
splitext(p) ==
    LET sepIndex == rfind(p, "/")
        dotIndex == rfind(p, ".")
    IN  IF /\ dotIndex > sepIndex
           /\ \E i \in (sepIndex + 1)..(dotIndex - 1) : p[i] # "."
        THEN <<SubSeq(p, 1, dotIndex - 1), SubSeq(p, dotIndex, Len(p))>>
        ELSE <<p, <<>>>>

\* os.path.basename: what follows the last slash.
basename(p) == SubSeq(p, rfind(p, "/") + 1, Len(p))

\* schema_basename = os.path.basename(schema_name[0])
schema_basename == Str(basename(schema_name[1]))

-----------------------------------------------------------------------------
(* Command line. *)

\* _options with -V declared store_true instead of store_false.
_options_store_true(args) ==
    [debug    |-> args.d,
     output   |-> args.o,
     validate |-> args.V,
     json     |-> args.JSON]

\* argparse: -V is store_false into `validate` (so it defaults to True),
\* -o defaults to None, -d is store_true, JSON is the positional argument.
_options(args) ==
    [debug    |-> args.d,
     output   |-> args.o,
     validate |-> ~args.V,
     json     |-> args.JSON]

-----------------------------------------------------------------------------
(* validate(filename): one run of `felis validate filename`.  proc is the   *)
(* finished process: [returncode, out, err].                                *)

LogRecord(msg) ==
    [name |-> "dlfelis.tap_schema.validate", level |-> "ERROR", msg |-> msg]

ExpectedStderr(filename) == "INFO:felis:Validating " \o filename \o "\n"

\* The test of line 231 with `and` where the code has `or`.
ValidationMismatch_and(filename, proc) ==
    proc.returncode # 0 /\ proc.err # ExpectedStderr(filename)

ValidationMismatch(filename, proc) ==
    proc.returncode # 0 \/ proc.err # ExpectedStderr(filename)

validate(filename, proc) ==
    [log    |-> IF ValidationMismatch(filename, proc)
                THEN (IF proc.out # ""
                      THEN <<LogRecord("STDOUT ="), LogRecord(proc.out)>>
                      ELSE <<>>)
                     \o <<LogRecord("STDERR ="), LogRecord(proc.err)>>
                ELSE <<>>,
     status |-> proc.returncode]

-----------------------------------------------------------------------------
(* The translation of main(). *)

ResolveDatatype(datatype) ==
    IF datatype \in DOMAIN felis_datatypes
    THEN felis_datatypes[datatype] ELSE datatype

\* A lookup that falls back to the empty string, as dict.get(unit, '').
ResolveUnit_default_empty(unit) ==
    IF unit \in DOMAIN felis_units THEN felis_units[unit] ELSE ""

ResolveUnit(unit) ==
    IF unit \in DOMAIN felis_units THEN felis_units[unit] ELSE unit

ResolveUcd(ucd) ==
    IF ucd \in DOMAIN felis_ucds THEN felis_ucds[ucd] ELSE ucd

\* The test of line 303 with 'char' left out.
HasLength_string_only(felis_datatype) == felis_datatype = "string"

HasLength(felis_datatype) == felis_datatype \in {"string", "char"}

\* The assertion of line 269, not evaluated (as under python -O).
TableSchemaOk_skipped(json_table, base) == TRUE

\* assert json_table['schema_name'] == schema_basename
TableSchemaOk(json_table, base) == json_table.schema_name = base

NewFelisSchema(doc) ==
    [name        |-> doc.schemas[1].schema_name,
     description |-> doc.schemas[1].description,
     version     |-> [current |-> "v1", compatible |-> <<"v1">>,
                      read_compatible |-> <<"v1">>],
     tables      |-> <<>>]
    @@ ("@id" :> ("#" \o doc.schemas[1].schema_name))

\* The filter of lines 278-279 without its second alternative.
ColumnMatches_bare(c, json_table, base) ==
    c.table_name = json_table.table_name

ColumnMatches(c, json_table, base) ==
    \/ c.table_name = json_table.table_name
    \/ c.table_name = base \o "." \o json_table.table_name

json_columns(doc, json_table, base) ==
    SelectSeq(doc.columns, LAMBDA c : ColumnMatches(c, json_table, base))

\* 'tap:column_index' taken from enumerate() as is.
ColumnIndex_zero_based(column_index) == column_index

ColumnIndex(column_index) == column_index + 1

TableIndex(index) == index + 1

felis_column(base, json_table, json_column, column_index) ==
    LET felis_datatype == ResolveDatatype(json_column.datatype)
    IN  [name        |-> json_column.column_name,
         description |-> json_column.description,
         datatype    |-> felis_datatype,
         nullable    |-> FALSE]
        @@ ("@id" :> ("#" \o base \o "." \o json_table.table_name \o "."
                      \o json_column.column_name))
        @@ ("tap:principal" :> json_column.principal)
        @@ ("tap:std" :> json_column.std)
        @@ ("tap:column_index" :> ColumnIndex(column_index))
        @@ (IF HasLength(felis_datatype)
            THEN [length |-> json_column.size] ELSE <<>>)
        @@ (IF json_column.unit # ""
            THEN "fits:tunit" :> ResolveUnit(json_column.unit) ELSE <<>>)
        @@ (IF json_column.ucd # ""
            THEN "ivoa:ucd" :> ResolveUcd(json_column.ucd) ELSE <<>>)

\* An index that lists the column's name where its identifier belongs.
felis_index_by_name(json_table, json_column, column) ==
    [name    |-> json_table.table_name \o "_" \o json_column.column_name
                 \o "_idx",
     columns |-> <<column.name>>]
    @@ ("@id" :> ("#" \o json_table.table_name \o "_"
                  \o json_column.column_name \o "_idx"))

felis_index(json_table, json_column, column) ==
    [name    |-> json_table.table_name \o "_" \o json_column.column_name
                 \o "_idx",
     columns |-> <<column["@id"]>>]
    @@ ("@id" :> ("#" \o json_table.table_name \o "_"
                  \o json_column.column_name \o "_idx"))

\* The loop over enumerate(json_columns), from position column_index on.
RECURSIVE ColumnLoop(_, _, _, _, _)
ColumnLoop(base, json_table, jcols, column_index, felis_table) ==
    IF column_index >= Len(jcols) THEN felis_table
    ELSE LET json_column == jcols[column_index + 1]
             column == felis_column(base, json_table, json_column,
                                    column_index)
             indexes == IF json_column.indexed
                        THEN Append(felis_table.indexes,
                                    felis_index(json_table, json_column,
                                                column))
                        ELSE felis_table.indexes
         IN  ColumnLoop(base, json_table, jcols, column_index + 1,
                        [felis_table EXCEPT
                            !.indexes = indexes,
                            !.columns = Append(felis_table.columns, column)])

NewFelisTable(base, json_table, index) ==
    [name        |-> json_table.table_name,
     description |-> json_table.description,
     primaryKey  |-> "",
     indexes     |-> <<>>,
     columns     |-> <<>>]
    @@ ("@id" :> ("#" \o base \o "." \o json_table.table_name))
    @@ ("tap:table_index" :> TableIndex(index))

felis_table(doc, base, index) ==
    LET json_table == doc.tables[index + 1]
    IN  ColumnLoop(base, json_table, json_columns(doc, json_table, base), 0,
                   NewFelisTable(base, json_table, index))

\* yaml.dump(felis_schema, y) after y.write('---\n').
YamlDocument(schema) == <<"---\n", [yaml |-> schema]>>

\* Values of locals that are not bound (not yet assigned, or dropped with the
\* frame when an exception leaves main).
NoSplit == <<<<>>, <<>>>>
NoDocument == [schemas |-> <<>>, tables |-> <<>>, columns |-> <<>>]
NoSchema == [tables |-> <<>>]
NoFiles == [f \in {} |-> <<>>]

-----------------------------------------------------------------------------
(* Bounded inputs. *)

\* Command lines: with and without -V, with and without -o (-o only together
\* with validation), and three JSON names: one accepted, one with another
\* extension, one that is all extension.
Argv ==
    {a \in [d : {FALSE},
            o : {<<>>, <<"o.yaml">>},
            V : BOOLEAN,
            JSON : {<<"d", "/", "S", ".", "j", "s", "o", "n">>,
                    <<"S", ".", "y", "a", "m", "l">>,
                    <<".", "j", "s", "o", "n">>}] :
        a.V => a.o = <<>>}

SchemaRecord(s) == [schema_name |-> s, description |-> "Schema"]

TableRecord(s, t) == [schema_name |-> s, table_name |-> t, description |-> ""]

ColumnRecord(t, c, indexed, datatype, size, unit, ucd) ==
    [table_name |-> t, column_name |-> c, description |-> "",
     datatype |-> datatype, size |-> size, principal |-> 1, std |-> 0,
     indexed |-> indexed, unit |-> unit, ucd |-> ucd]

GoodSchemas == {<<SchemaRecord("S")>>}

BadSchemas == {<<>>, <<SchemaRecord("X")>>,
               <<SchemaRecord("S"), SchemaRecord("S")>>}

\* A document whose `schemas` section is rejected is never looked at further,
\* so those documents are enumerated with empty `tables` and `columns`.
Documents(tables, columns) ==
    {[schemas |-> s, tables |-> t, columns |-> c] :
        s \in GoodSchemas, t \in tables, c \in columns}
    \cup {[schemas |-> s, tables |-> <<>>, columns |-> <<>>] :
            s \in BadSchemas}

\* Documents that vary in structure: which tables there are, which table a
\* column names (bare or qualified, present or not), which columns are
\* indexed.
StructTables ==
    {TableRecord("S", "T"), TableRecord("S", "U"), TableRecord("S", "S.T"),
     TableRecord("X", "T")}

StructColumns ==
    {ColumnRecord(t, c, i, "real", 0, "", "") :
        t \in {"T", "S.T", "U"}, c \in {"a", "b"}, i \in BOOLEAN}

StructDocs ==
    Documents(SeqsUpTo(StructTables, MaxTables),
              SeqsUpTo(StructColumns, MaxColumns))

\* Documents that vary in the vocabulary of one table's columns: keys and
\* non-keys of each normalization table, empty unit and UCD.
NormColumns ==
    {ColumnRecord("T", "a", FALSE, d, s, u, c) :
        d \in {"varchar", "character", "real", "char", "string", "blob"},
        s \in {1, 20},
        u \in {"", "degrees", "None", "mJy"},
        c \in {"", "number", "pos.eq.ra"}}

NormDocs ==
    Documents({<<TableRecord("S", "T")>>},
              SeqsUpTo(NormColumns, MaxNormColumns))

\* Documents whose names contain the separators the identifiers are built
\* with: '.' (table and column identifiers) and '_' (index identifiers).
\* Every column is indexed.
IdTables ==
    {TableRecord("S", "a"), TableRecord("S", "a_b"), TableRecord("S", "a.b")}

IdColumns ==
    {ColumnRecord(t, c, TRUE, "real", 0, "", "") :
        t \in {"a", "a_b", "a.b"}, c \in {"b", "c", "b_c"}}

IdDocs ==
    Documents(SeqsUpTo(IdTables, MaxTables), SeqsUpTo(IdColumns, MaxColumns))

\* Outcomes of the felis process.
FelisRuns(filename) ==
    {[returncode |-> r, out |-> o, err |-> e] :
        r \in {0, 1, 2},
        o \in {"", "some output"},
        e \in {ExpectedStderr(filename),
               ExpectedStderr(filename) \o "ERROR:felis:Some sort of error!\n",
               ExpectedStderr("other.yaml"),
               "INFO:felis:Validating " \o filename,
               ""}}

\* The outcomes explored when main() runs the validator: the success and the
\* failure of the test suite's MockPopen.
MainFelisRuns(filename) ==
    {p \in FelisRuns(filename) :
        \/ p.returncode = 0 /\ p.out = "" /\ p.err = ExpectedStderr(filename)
        \/ p.returncode = 1 /\ p.out = "some output"
           /\ p.err = ExpectedStderr(filename)
                      \o "ERROR:felis:Some sort of error!\n"}

ValidateFilenames == {"success.json", "failure.json", "d/S.yaml", "o.yaml"}

-----------------------------------------------------------------------------
(* main() *)

NoOptions == [debug |-> FALSE, output |-> <<>>, validate |-> FALSE,
              json |-> <<>>]

Init ==
    /\ argv \in Argv
    /\ pc = "start"
    /\ options = NoOptions
    /\ schema_name = NoSplit
    /\ json_schema = NoDocument
    /\ felis_schema = NoSchema
    /\ tap_index = 0
    /\ felis_yaml = ""
    /\ y = {}
    /\ fs = NoFiles
    /\ felis_calls = <<>>
    /\ log = <<>>
    /\ status = <<>>
    /\ raised = <<>>

\* An AssertionError leaves main: its locals go with the frame.
Raise(line) ==
    /\ pc' = "error"
    /\ raised' = <<"AssertionError", line>>
    /\ schema_name' = NoSplit
    /\ json_schema' = NoDocument
    /\ felis_schema' = NoSchema
    /\ tap_index' = 0
    /\ UNCHANGED <<argv, options, felis_yaml, y, fs, felis_calls, log, status>>

\* options = _options()
ParseOptions ==
    /\ pc = "start"
    /\ options' = _options(argv)
    /\ pc' = "split"
    /\ UNCHANGED <<argv, schema_name, json_schema, felis_schema, tap_index,
                   felis_yaml, y, fs, felis_calls, log, status, raised>>

\* schema_name = os.path.splitext(options.json); assert the extension.
SplitExt ==
    /\ pc = "split"
    /\ LET split == splitext(options.json)
       IN  IF Str(split[2]) = ".json"
           THEN /\ schema_name' = split
                /\ pc' = "load"
                /\ UNCHANGED <<argv, options, json_schema, felis_schema, tap_index,
                               felis_yaml, y, fs, felis_calls, log, status, raised>>
           ELSE Raise(254)

\* json.load, the two assertions on `schemas`, the empty output schema.
LoadJson(docs) ==
    /\ pc = "load"
    /\ \E doc \in docs :
          IF Len(doc.schemas) # 1 THEN Raise(257)
          ELSE IF doc.schemas[1].schema_name # schema_basename THEN Raise(258)
          ELSE /\ json_schema' = doc
               /\ felis_schema' = NewFelisSchema(doc)
               /\ tap_index' = 0
               /\ pc' = "tables"
               /\ UNCHANGED <<argv, options, schema_name, felis_yaml, y, fs,
                              felis_calls, log, status, raised>>

\* One iteration of the loop over enumerate(json_schema['tables']).
TableLoop ==
    /\ pc = "tables"
    /\ tap_index < Len(json_schema.tables)
    /\ IF TableSchemaOk(json_schema.tables[tap_index + 1], schema_basename)
       THEN /\ felis_schema' =
                  [felis_schema EXCEPT !.tables =
                      Append(@, felis_table(json_schema, schema_basename,
                                            tap_index))]
            /\ tap_index' = tap_index + 1
            /\ UNCHANGED <<argv, pc, options, schema_name, json_schema, felis_yaml,
                           y, fs, felis_calls, log, status, raised>>
       ELSE Raise(269)

\* The output name, and open(felis_yaml, 'w'): the file exists and is empty.
OpenOutput ==
    /\ pc = "tables"
    /\ tap_index = Len(json_schema.tables)
    /\ LET name == IF options.output = <<>>
                   THEN Str(schema_name[1]) \o ".yaml"
                   ELSE options.output[1]
       IN  /\ felis_yaml' = name
           /\ fs' = (name :> <<>>) @@ fs
           /\ y' = y \cup {name}
    /\ pc' = "write"
    /\ UNCHANGED <<argv, options, schema_name, json_schema, felis_schema, tap_index,
                   felis_calls, log, status, raised>>

\* The write of lines 329-331 without the with block: y is left open.
WriteYaml_unclosed ==
    /\ pc = "write"
    /\ fs' = [fs EXCEPT ![felis_yaml] = @ \o YamlDocument(felis_schema)]
    /\ pc' = "branch"
    /\ UNCHANGED <<argv, options, schema_name, json_schema, felis_schema,
                   tap_index, felis_yaml, y, felis_calls, log, status, raised>>

\* y.write('---\n'); yaml.dump(felis_schema, y); the with block closes y.
WriteYaml ==
    /\ pc = "write"
    /\ fs' = [fs EXCEPT ![felis_yaml] = @ \o YamlDocument(felis_schema)]
    /\ y' = y \ {felis_yaml}
    /\ pc' = "branch"
    /\ UNCHANGED <<argv, options, schema_name, json_schema, felis_schema, tap_index,
                   felis_yaml, felis_calls, log, status, raised>>

\* status = validate(felis_yaml); return status
RunValidate ==
    /\ pc = "branch"
    /\ options.validate
    /\ \E proc \in MainFelisRuns(felis_yaml) :
          LET v == validate(felis_yaml, proc)
          IN  /\ felis_calls' = Append(felis_calls,
                                       [filename |-> felis_yaml, proc |-> proc])
              /\ log' = log \o v.log
              /\ status' = <<v.status>>
    /\ pc' = "done"
    /\ UNCHANGED <<argv, options, schema_name, json_schema, felis_schema, tap_index,
                   felis_yaml, y, fs, raised>>

\* status = 0; return status
SkipValidate ==
    /\ pc = "branch"
    /\ ~options.validate
    /\ status' = <<0>>
    /\ pc' = "done"
    /\ UNCHANGED <<argv, options, schema_name, json_schema, felis_schema, tap_index,
                   felis_yaml, y, fs, felis_calls, log, raised>>

Main(docs) ==
    \/ ParseOptions
    \/ SplitExt
    \/ LoadJson(docs)
    \/ TableLoop
    \/ OpenOutput
    \/ WriteYaml
    \/ RunValidate
    \/ SkipValidate

Next == Main(StructDocs)

Spec == Init /\ [][Next]_vars

NextNorm == Main(NormDocs)

SpecNorm == Init /\ [][NextNorm]_vars

NextIds == Main(IdDocs)

SpecIds == Init /\ [][NextIds]_vars

-----------------------------------------------------------------------------
(* validate() called on its own, as the test suite does. *)

InitValidate ==
    /\ argv = [d |-> FALSE, o |-> <<>>, V |-> FALSE, JSON |-> <<>>]
    /\ pc = "call"
    /\ options = NoOptions
    /\ schema_name = NoSplit
    /\ json_schema = NoDocument
    /\ felis_schema = NoSchema
    /\ tap_index = 0
    /\ felis_yaml \in ValidateFilenames
    /\ y = {}
    /\ fs = NoFiles
    /\ felis_calls = <<>>
    /\ log = <<>>
    /\ status = <<>>
    /\ raised = <<>>

CallValidate ==
    /\ pc = "call"
    /\ \E proc \in FelisRuns(felis_yaml) :
          LET v == validate(felis_yaml, proc)
          IN  /\ felis_calls' = Append(felis_calls,
                                       [filename |-> felis_yaml, proc |-> proc])
              /\ log' = log \o v.log
              /\ status' = <<v.status>>
    /\ pc' = "returned"
    /\ UNCHANGED <<argv, options, schema_name, json_schema, felis_schema, tap_index,
                   felis_yaml, y, fs, raised>>

NextValidate == CallValidate

SpecValidate == InitValidate /\ [][NextValidate]_vars

-----------------------------------------------------------------------------
(* Properties of main() and validate(). *)

MainPcs == {"start", "split", "load", "tables", "write", "branch", "done", "error"}

\* Input and output of a run of main() that has returned.
Returned == pc = "done"

OutputTouched == DOMAIN fs # {} \/ y # {} \/ felis_calls # <<>>

\* The structural preconditions, stated on the command line and the document.
PreconditionsHold ==
    LET split == splitext(options.json)
        base == Str(basename(split[1]))
    IN  /\ Str(split[2]) = ".json"
        /\ Len(json_schema.schemas) = 1
        /\ json_schema.schemas[1].schema_name = base
        /\ \A k \in 1..Len(json_schema.tables) :
              json_schema.tables[k].schema_name = base

\* C1: a run that ends in an error has not opened or written the output file
\* nor run the validator, and a run in which the output file was opened or
\* written or the validator was run (or the table loop is complete) satisfies
\* every structural precondition: wrong extension, a number of schemas other
\* than one, a schema name other than the base file name, or a table of
\* another schema at any position, all end in the error state with nothing
\* written.
C1_NoOutputOnViolation ==
    /\ pc = "error" => ~OutputTouched /\ raised # <<>> /\ status = <<>>
    /\ pc \in MainPcs
       /\ \/ OutputTouched
          \/ pc \in {"write", "branch", "done"}
          \/ pc = "tables" /\ tap_index = Len(json_schema.tables)
       => PreconditionsHold /\ raised = <<>>

\* C1 witness: the assertion on a table's schema_name has ended a run.
C1_Witness ==
    pc = "error" /\ raised = <<"AssertionError", 269>> /\ ~OutputTouched

-----------------------------------------------------------------------------
(* The input and the output of a run that has returned, and how the         *)
(* properties below relate them.                                            *)

\* The schema read back from the output file.
Output == fs[felis_yaml][2].yaml

InTables == json_schema.tables

InColumns == json_schema.columns

SchemaName == json_schema.schemas[1].schema_name

\* Input column i names input table k, by its bare or its qualified name.
Names(i, k) ==
    \/ InColumns[i].table_name = InTables[k].table_name
    \/ InColumns[i].table_name
         = SchemaName \o "." \o InTables[k].table_name

\* Positions of the input columns that name table k, in input order.
Attached(k) ==
    SelectSeq([i \in 1..Len(InColumns) |-> i], LAMBDA i : Names(i, k))

\* Those of them that are indexed.
IndexedAttached(k) ==
    SelectSeq(Attached(k), LAMBDA i : InColumns[i].indexed)

ColumnId(i, k) ==
    "#" \o SchemaName \o "." \o InTables[k].table_name \o "."
        \o InColumns[i].column_name

IndexName(i, k) ==
    InTables[k].table_name \o "_" \o InColumns[i].column_name \o "_idx"

\* The j-th Index node of output table k is the one for input column i.
IsIndexFor(k, j, i) ==
    /\ k \in 1..Len(Output.tables)
    /\ j \in 1..Len(Output.tables[k].indexes)
    /\ j \in 1..Len(IndexedAttached(k))
    /\ IndexedAttached(k)[j] = i
    /\ Output.tables[k].indexes[j].name = IndexName(i, k)
    /\ Output.tables[k].indexes[j].columns = <<ColumnId(i, k)>>

\* Number of Index nodes of the output that are for input column i.
IndexNodesFor(i) ==
    Cardinality(UNION {{<<k, j>> : j \in {n \in
                                     1..Len(Output.tables[k].indexes) :
                                     IsIndexFor(k, n, i)}} :
                       k \in 1..Len(Output.tables)})

\* The j-th Column node of output table k is the one for input column i.
IsColumnFor(k, j, i) ==
    /\ k \in 1..Len(Output.tables)
    /\ j \in 1..Len(Output.tables[k].columns)
    /\ j \in 1..Len(Attached(k))
    /\ Attached(k)[j] = i
    /\ Output.tables[k].columns[j].name = InColumns[i].column_name
    /\ Output.tables[k].columns[j]["@id"] = ColumnId(i, k)

\* Output tables in whose column list input column i appears.
TablesHolding(i) ==
    {k \in 1..Len(Output.tables) :
        \E j \in 1..Len(Output.tables[k].columns) : IsColumnFor(k, j, i)}

\* C2 as stated: every indexed input column has exactly one Index node in
\* the output, named {table}_{column}_idx and listing exactly the column's
\* identifier, and a column that is not indexed has none.
C2_Original ==
    Returned =>
        \A i \in 1..Len(InColumns) :
            IndexNodesFor(i) = IF InColumns[i].indexed THEN 1 ELSE 0

\* C2 amended: each output table holds exactly one Index node per indexed
\* input column that names it, in input order, named {table}_{column}_idx
\* and listing exactly the identifier #{schema}.{table}.{column}; so an
\* indexed column has one Index node in each table it is attached to and none
\* when it is attached to no table, and a column that is not indexed has none.
C2_IndexPerAttachedColumn ==
    Returned =>
        /\ \A k \in 1..Len(Output.tables) :
              /\ Len(Output.tables[k].indexes) = Len(IndexedAttached(k))
              /\ \A j \in 1..Len(IndexedAttached(k)) :
                    IsIndexFor(k, j, IndexedAttached(k)[j])
        /\ \A i \in 1..Len(InColumns) :
              IndexNodesFor(i) =
                  IF InColumns[i].indexed
                  THEN Cardinality({k \in 1..Len(InTables) : Names(i, k)})
                  ELSE 0

\* C2 witness: a returned run with an indexed column attached to a table
\* (one Index node) and an indexed column attached to none (no Index node).
C2_Witness ==
    /\ Returned
    /\ \E i1, i2 \in 1..Len(InColumns) :
          /\ InColumns[i1].indexed /\ IndexNodesFor(i1) = 1
          /\ InColumns[i2].indexed /\ IndexNodesFor(i2) = 0
          /\ \A k \in 1..Len(InTables) : ~Names(i2, k)

\* C3: the output has the input's tables in input order, the k-th with
\* tap:table_index = k; the columns of each output table are the input
\* columns that name it, in input order, the j-th with tap:column_index = j.
C3_Ordinals ==
    Returned =>
        /\ Len(Output.tables) = Len(InTables)
        /\ \A k \in 1..Len(InTables) :
              /\ Output.tables[k].name = InTables[k].table_name
              /\ Output.tables[k]["tap:table_index"] = k
              /\ Len(Output.tables[k].columns) = Len(Attached(k))
              /\ \A j \in 1..Len(Attached(k)) :
                    /\ IsColumnFor(k, j, Attached(k)[j])
                    /\ Output.tables[k].columns[j]["tap:column_index"] = j

\* C3 witness: two tables; the second input column is the first column of
\* its table because the first input column belongs to the other table.
C3_Witness ==
    /\ Returned
    /\ Len(InTables) = 2
    /\ Output.tables[2]["tap:table_index"] = 2
    /\ \E k \in 1..2 :
          /\ Attached(k) = <<2>>
          /\ Attached(3 - k) = <<1>>
          /\ Output.tables[k].columns[1]["tap:column_index"] = 1

\* Of the input columns i1 and i2, one names table k by its bare name and the
\* other by its qualified name.
BareAndQualified(i1, i2, k) ==
    LET bare == InTables[k].table_name
        qualified == SchemaName \o "." \o InTables[k].table_name
    IN  \/ InColumns[i1].table_name = bare
           /\ InColumns[i2].table_name = qualified
        \/ InColumns[i1].table_name = qualified
           /\ InColumns[i2].table_name = bare

\* C4: when one input column names table T by its bare name and another by
\* the qualified name S.T, both are columns of output table T and they stand
\* there in their input order.
C4_BareAndQualified ==
    Returned =>
        \A k \in 1..Len(InTables) :
            \A i1, i2 \in 1..Len(InColumns) :
                i1 < i2 /\ BareAndQualified(i1, i2, k) =>
                    \E j1, j2 \in 1..Len(Output.tables[k].columns) :
                        /\ j1 < j2
                        /\ IsColumnFor(k, j1, i1)
                        /\ IsColumnFor(k, j2, i2)

\* C4 witness: column b tagged S.T before column a tagged T, both in table T.
C4_Witness ==
    /\ Returned
    /\ Len(InTables) = 1 /\ InTables[1].table_name = "T"
    /\ Len(InColumns) = 2
    /\ InColumns[1].table_name = "S.T" /\ InColumns[1].column_name = "b"
    /\ InColumns[2].table_name = "T" /\ InColumns[2].column_name = "a"
    /\ Output.tables[1].columns[1].name = "b"
    /\ Output.tables[1].columns[2].name = "a"

\* The Column node of output table k built from its j-th attached column.
Node(k, j) == Output.tables[k].columns[j]

\* The input column it was built from.
Source(k, j) == InColumns[Attached(k)[j]]

\* Every Column node of the output satisfies P(input column, node).
EveryColumn(P(_, _)) ==
    \A k \in 1..Len(Output.tables) :
        \A j \in 1..Len(Output.tables[k].columns) :
            j <= Len(Attached(k)) /\ P(Source(k, j), Node(k, j))

\* No run of these documents is ended by anything but the assertions on the
\* file name and on `schemas`.
OnlyContractErrors ==
    pc = "error" => raised[1] = "AssertionError"
                    /\ raised[2] \in {254, 257, 258}

PassesAll(c, node) ==
    /\ c.datatype \notin DOMAIN felis_datatypes
          => node.datatype = c.datatype
    /\ c.unit \notin DOMAIN felis_units
          => "fits:tunit" \in DOMAIN node /\ node["fits:tunit"] = c.unit
    /\ c.ucd \notin DOMAIN felis_ucds
          => "ivoa:ucd" \in DOMAIN node /\ node["ivoa:ucd"] = c.ucd

\* C5 as stated: a datatype, unit or UCD string that is not a key of its
\* normalization table is the value of the output field, unchanged, and the
\* miss is no error.
C5_Original ==
    /\ OnlyContractErrors
    /\ Returned => EveryColumn(PassesAll)

PassesNonEmpty(c, node) ==
    /\ c.datatype \notin DOMAIN felis_datatypes
          => node.datatype = c.datatype
    /\ c.unit # "" /\ c.unit \notin DOMAIN felis_units
          => "fits:tunit" \in DOMAIN node /\ node["fits:tunit"] = c.unit
    /\ c.unit = "" => "fits:tunit" \notin DOMAIN node
    /\ c.ucd # "" /\ c.ucd \notin DOMAIN felis_ucds
          => "ivoa:ucd" \in DOMAIN node /\ node["ivoa:ucd"] = c.ucd
    /\ c.ucd = "" => "ivoa:ucd" \notin DOMAIN node

\* C5 amended: a datatype string that is not a key of felis_datatypes, and a
\* non-empty unit or UCD string that is not a key of felis_units or
\* felis_ucds, is the value of the output field (datatype, fits:tunit,
\* ivoa:ucd), unchanged; an empty unit or UCD leaves the field out; and a
\* miss never ends the run in an error.
C5_PassThrough ==
    /\ OnlyContractErrors
    /\ Returned => EveryColumn(PassesNonEmpty)

\* C5 witness: datatype, unit and UCD all miss and are all passed through.
C5_Witness ==
    /\ Returned
    /\ Len(Output.tables) = 1 /\ Len(Output.tables[1].columns) = 1
    /\ Source(1, 1).datatype = "blob" /\ Node(1, 1).datatype = "blob"
    /\ Source(1, 1).unit = "mJy" /\ Node(1, 1)["fits:tunit"] = "mJy"
    /\ Source(1, 1).ucd = "pos.eq.ra"
    /\ Node(1, 1)["ivoa:ucd"] = "pos.eq.ra"

LengthRule(c, node) ==
    /\ "length" \in DOMAIN node <=> node.datatype \in {"string", "char"}
    /\ "length" \in DOMAIN node => node.length = c.size
    /\ node.datatype = IF c.datatype \in DOMAIN felis_datatypes
                       THEN felis_datatypes[c.datatype] ELSE c.datatype

\* C6: an output Column node has a length field exactly when its datatype,
\* as resolved (normalized, or passed through on a miss), is 'string' or
\* 'char', and the length is then the input size.
C6_LengthOnlyStringLike ==
    Returned => EveryColumn(LengthRule)

\* C6 witness: the raw datatype 'char' is no key, passes through, and gets
\* its length from size.
C6_Witness ==
    /\ Returned
    /\ Len(Output.tables) = 1 /\ Len(Output.tables[1].columns) = 1
    /\ Source(1, 1).datatype = "char" /\ Source(1, 1).size = 20
    /\ "char" \notin DOMAIN felis_datatypes
    /\ Node(1, 1).datatype = "char" /\ Node(1, 1).length = 20

\* C7: a run that returns (all preconditions held) returns 0 without running
\* the validator when -V was given, and otherwise has run the validator once,
\* on the output file, and returns its return code.
C7_Status ==
    Returned =>
        /\ PreconditionsHold
        /\ IF argv.V
           THEN status = <<0>> /\ felis_calls = <<>>
           ELSE /\ Len(felis_calls) = 1
                /\ felis_calls[1].filename = felis_yaml
                /\ status = <<felis_calls[1].proc.returncode>>

\* C7 witness: validation was requested and failed with return code 1.
C7_Witness ==
    /\ Returned
    /\ ~argv.V
    /\ felis_calls # <<>> /\ felis_calls[1].proc.returncode = 1
    /\ status = <<1>>

Messages(records) == [n \in 1..Len(records) |-> records[n].msg]

\* C8: validate(filename) returns the process's return code; it logs exactly
\* when the return code is not 0 or stderr is not
\* 'INFO:felis:Validating {filename}\n'; what it logs is, at level ERROR,
\* 'STDOUT =' and stdout (both only when stdout is not empty), then
\* 'STDERR =' and stderr.
C8_Validate ==
    pc = "returned" =>
        LET filename == felis_calls[1].filename
            proc == felis_calls[1].proc
            mismatch == \/ proc.returncode # 0
                        \/ proc.err # "INFO:felis:Validating " \o filename
                                       \o "\n"
        IN  /\ status = <<proc.returncode>>
            /\ log # <<>> <=> mismatch
            /\ \A n \in 1..Len(log) :
                  /\ log[n].level = "ERROR"
                  /\ log[n].name = "dlfelis.tap_schema.validate"
            /\ mismatch =>
                  Messages(log) =
                      (IF proc.out # "" THEN <<"STDOUT =", proc.out>>
                       ELSE <<>>) \o <<"STDERR =", proc.err>>

\* C8 witness: return code 0 with a stderr that lacks the final newline is
\* logged, and with an empty stdout only the two STDERR records are.
C8_Witness ==
    /\ pc = "returned"
    /\ felis_calls[1].proc.returncode = 0
    /\ felis_calls[1].proc.out = ""
    /\ felis_calls[1].proc.err
         = "INFO:felis:Validating " \o felis_calls[1].filename
    /\ Len(log) = 2
    /\ status = <<0>>

\* The output file holds the document-start marker and the whole schema, and
\* is closed.
OutputComplete ==
    /\ felis_yaml \in DOMAIN fs
    /\ fs[felis_yaml] = <<"---\n", [yaml |-> felis_schema]>>
    /\ Len(felis_schema.tables) = Len(json_schema.tables)
    /\ y = {}

\* C9: when main() is about to run or skip the validator the output file is
\* completely written and closed; the validator runs at no other point, and
\* after main() has returned, whatever the validator's return code and
\* stderr, the file is still there with that content.
C9_WrittenBeforeValidation ==
    /\ pc \in {"branch", "done"} => OutputComplete
    /\ pc \in MainPcs /\ felis_calls # <<>> => pc = "done"

\* C9 witness: the validator failed with return code 1 and an unexpected
\* stderr, main() has returned 1, and the complete file is on disk.
C9_Witness ==
    /\ Returned
    /\ felis_calls # <<>>
    /\ felis_calls[1].proc.returncode = 1
    /\ felis_calls[1].proc.err # ExpectedStderr(felis_yaml)
    /\ Len(log) = 4
    /\ status = <<1>>
    /\ OutputComplete
    /\ Len(felis_schema.tables) = 2

\* C10 as stated: when the tables' names are pairwise distinct (each table
\* carries the schema's name, or the run would not have returned), every
\* input column is in the column list of exactly one output table if it names
\* a table by bare or qualified name, and of none (and has no Index node)
\* otherwise.
C10_AtMostOneTable ==
    Returned
    /\ (\A k1, k2 \in 1..Len(InTables) :
           k1 # k2 => InTables[k1].table_name # InTables[k2].table_name)
    /\ (\A k \in 1..Len(InTables) : InTables[k].schema_name = SchemaName)
    => \A i \in 1..Len(InColumns) :
          IF \E k \in 1..Len(InTables) : Names(i, k)
          THEN Cardinality(TablesHolding(i)) = 1
          ELSE TablesHolding(i) = {} /\ IndexNodesFor(i) = 0

\* Places of the output graph that carry an '@id': the schema, its tables,
\* their columns and their indexes.
IdPlaces ==
    {<<"schema", 0, 0>>}
    \cup {<<"table", k, 0>> : k \in 1..Len(Output.tables)}
    \cup UNION {{<<"column", k, j>> :
                    j \in 1..Len(Output.tables[k].columns)} :
                k \in 1..Len(Output.tables)}
    \cup UNION {{<<"index", k, j>> :
                    j \in 1..Len(Output.tables[k].indexes)} :
                k \in 1..Len(Output.tables)}

IdAt(place) ==
    IF place[1] = "schema" THEN Output["@id"]
    ELSE IF place[1] = "table" THEN Output.tables[place[2]]["@id"]
    ELSE IF place[1] = "column"
    THEN Output.tables[place[2]].columns[place[3]]["@id"]
    ELSE Output.tables[place[2]].indexes[place[3]]["@id"]

DistinctTableNames ==
    \A k1, k2 \in 1..Len(InTables) :
        k1 # k2 => InTables[k1].table_name # InTables[k2].table_name

\* The columns of each output table have pairwise distinct names.
DistinctColumnNames ==
    \A k \in 1..Len(Output.tables) :
        \A j1, j2 \in 1..Len(Output.tables[k].columns) :
            j1 # j2 => Output.tables[k].columns[j1].name
                       # Output.tables[k].columns[j2].name

\* C11 as stated: when the preconditions hold (the run has returned), the
\* table names are pairwise distinct and the column names are pairwise
\* distinct within each table, the '@id's of the schema, of every table, of
\* every column and of every index are pairwise distinct.
C11_DistinctIds ==
    Returned /\ PreconditionsHold /\ DistinctTableNames
    /\ DistinctColumnNames
    => \A p, q \in IdPlaces : p # q => IdAt(p) # IdAt(q)

====
